---- MODULE Spec2Model ----
(***************************************************************************)
(* Model of autobackup.py: startBackup iterates the configured folders,    *)
(* validates each with isSubFolder, allocates a ".skippedN" folder and     *)
(* runs the recursive backupFiles walk, which moves files according to the *)
(* fileExistsAction and removes the traversed source subfolders.           *)
(*                                                                         *)
(* A file name is a sequence of one-character strings, a path is a         *)
(* sequence of names (the empty path is "/"), and the filesystem is a      *)
(* function from canonical paths to contents (Dir for a directory, a       *)
(* positive number identifying the content of a regular file).             *)
(***************************************************************************)
EXTENDS Integers, Sequences, FiniteSets, TLC

VARIABLES
    fs,        \* the filesystem: canonical path -> Dir or file content
    sourceRootPath,       \* config.sourceRootPath, as a path
    destinationRootPath,  \* config.destinationRootPath, as a path
    jobs,      \* config.foldersToBackup: sequence of BackupFolder records
    k,         \* index of the folder the loop of startBackup is at
    stack,     \* the active calls of backupFiles, innermost last
    status,    \* "running", "done" or "raised" (an uncaught exception)
    errors,    \* indices of the folders for which logging.error was called
    quar,      \* per started folder: what skippedFolderPath returned
    atStart,   \* per started folder: the filesystem when its backup began
    last       \* the step just taken (the debug log line it wrote)

config == <<sourceRootPath, destinationRootPath, jobs>>

vars == <<fs, config, k, stack, status, errors, quar, atStart, last>>

----------------------------------------------------------------------------
(* Bounds of the model *)

MaxJobs == 2
MaxCollide == 3
MaxSkipped == 2

----------------------------------------------------------------------------
(* Names and paths *)

Dir == 0

NoPath == << <<>> >>
NoName == <<>>

DotDot == <<".", ".">>

Digits == <<"0", "1", "2", "3", "4", "5", "6", "7", "8", "9">>

RECURSIVE FormatN(_)
FormatN(i) ==
    IF i < 10 THEN <<Digits[i + 1]>>
    ELSE FormatN(i \div 10) \o <<Digits[(i % 10) + 1]>>

\* str.rfind('.') on the name, 1-based, 0 when there is no dot
RFindDot(name) ==
    LET dots == {i \in 1..Len(name) : name[i] = "."}
    IN  IF dots = {} THEN 0 ELSE CHOOSE i \in dots : \A j \in dots : j <= i

HasSuffix(name) ==
    LET i == RFindDot(name) IN 1 < i /\ i < Len(name)

Stem(name) ==
    IF HasSuffix(name) THEN SubSeq(name, 1, RFindDot(name) - 1) ELSE name

Suffix(name) ==
    IF HasSuffix(name) THEN SubSeq(name, RFindDot(name), Len(name)) ELSE <<>>

Parent(p) == IF p = <<>> THEN <<>> ELSE SubSeq(p, 1, Len(p) - 1)

BaseName(p) == p[Len(p)]

RECURSIVE Canon(_)
Canon(p) ==
    IF p = <<>> THEN <<>>
    ELSE LET q == Canon(Parent(p)) IN
         IF BaseName(p) = DotDot THEN Parent(q) ELSE Append(q, BaseName(p))

IsPrefix(a, b) == Len(a) <= Len(b) /\ SubSeq(b, 1, Len(a)) = a

\* is_relative_to on the paths as given, without resolve()
isSubFolderNoResolve(root, pathToCheck) == IsPrefix(root, pathToCheck)

isSubFolder(root, pathToCheck) == IsPrefix(Canon(root), Canon(pathToCheck))

----------------------------------------------------------------------------
(* Filesystem primitives used by the program *)

Exists(f, p) == Canon(p) \in DOMAIN f

IsDirAt(f, p) == Exists(f, p) /\ f[Canon(p)] = Dir

Ancestors(p) == {SubSeq(p, 1, n) : n \in 0..(Len(p) - 1)}

Below(p, q) == IsPrefix(p, q) /\ p # q

Children(f, p) == {BaseName(q) : q \in {r \in DOMAIN f : Len(r) = Len(p) + 1 /\ IsPrefix(p, r)}}

\* Path.mkdir(parents=True, exist_ok=existOk)
Mkdir(f, p, existOk) ==
    LET c == Canon(p) IN
    IF c \in DOMAIN f THEN
        IF existOk /\ f[c] = Dir THEN [err |-> "", fs |-> f]
        ELSE [err |-> "FileExistsError", fs |-> f]
    ELSE IF \E a \in Ancestors(c) : a \in DOMAIN f /\ f[a] # Dir THEN
        [err |-> "NotADirectoryError", fs |-> f]
    ELSE
        LET new == (Ancestors(c) \cup {c}) \ DOMAIN f
        IN  [err |-> "", fs |-> [q \in DOMAIN f \cup new |-> IF q \in new THEN Dir ELSE f[q]]]

\* shutil.move of a regular file
Move(f, s, d) ==
    LET cs == Canon(s)
        cd == Canon(d)
        real == IF IsDirAt(f, d) THEN Append(cd, BaseName(cs)) ELSE cd
    IN  IF IsDirAt(f, d) /\ real \in DOMAIN f THEN [err |-> "Error", fs |-> f]
        ELSE [err |-> "",
              fs |-> [q \in (DOMAIN f \ {cs}) \cup {real} |-> IF q = real THEN f[cs] ELSE f[q]]]

\* rmtree handed the folder being listed in place of the entry
RmTreeOfParent(f, p) ==
    LET c == Parent(Canon(p)) IN [q \in {r \in DOMAIN f : ~IsPrefix(c, r)} |-> f[q]]

\* shutil.rmtree of a directory
RmTree(f, p) ==
    LET c == Canon(p) IN [q \in {r \in DOMAIN f : ~IsPrefix(c, r)} |-> f[q]]

\* the move without the mkdir of the destination's parent
moveFileNoParents(f, source, destination) == Move(f, source, destination)

moveFile(f, source, destination) ==
    LET mk == Mkdir(f, Parent(destination), TRUE)
    IN  IF mk.err # "" THEN mk ELSE Move(mk.fs, source, destination)

----------------------------------------------------------------------------
(* The two name allocators *)

SkippedFirst == 1
SkippedStop == 100
KeepBothFirst == 2
KeepBothStop == 100

SkippedText == <<".", "s", "k", "i", "p", "p", "e", "d">>

\* Path(str(folderToBackup.as_posix()) + '.skipped{:n}'.format(i))
SkippedCandidate(folderToBackup, i) ==
    Append(Parent(folderToBackup), BaseName(folderToBackup) \o SkippedText \o FormatN(i))

\* the loop written as range(100): the first candidate is ".skipped0"
skippedFolderPathFromZero(f, folderToBackup) ==
    LET free == {i \in 0..(SkippedStop - 1) : ~Exists(f, SkippedCandidate(folderToBackup, i))}
    IN  IF free = {} THEN NoPath
        ELSE SkippedCandidate(folderToBackup, CHOOSE i \in free : \A j \in free : i <= j)

skippedFolderPath(f, folderToBackup) ==
    LET free == {i \in SkippedFirst..(SkippedStop - 1) : ~Exists(f, SkippedCandidate(folderToBackup, i))}
    IN  IF free = {} THEN NoPath
        ELSE SkippedCandidate(folderToBackup, CHOOSE i \in free : \A j \in free : i <= j)

\* '{:s} {:n}{:s}'.format(sourceFile.stem, i, sourceFile.suffix)
keepBothFileName(name, i) == Stem(name) \o <<" ">> \o FormatN(i) \o Suffix(name)

\* the loop written as range(1, 100): the first renamed candidate is "S 1E"
keepBothTargetFromOne(f, name, destinationPath) ==
    LET fullDestination == Append(destinationPath, name)
        free == {i \in 1..(KeepBothStop - 1) :
                    ~Exists(f, Append(destinationPath, keepBothFileName(name, i)))}
    IN  IF Exists(f, fullDestination) THEN
            IF free = {} THEN NoPath
            ELSE Append(destinationPath, keepBothFileName(name, CHOOSE i \in free : \A j \in free : i <= j))
        ELSE fullDestination

\* the path keepBothFiles moves the file to, NoPath when the loop ends without a move
keepBothTarget(f, name, destinationPath) ==
    LET fullDestination == Append(destinationPath, name)
        free == {i \in KeepBothFirst..(KeepBothStop - 1) :
                    ~Exists(f, Append(destinationPath, keepBothFileName(name, i)))}
    IN  IF Exists(f, fullDestination) THEN
            IF free = {} THEN NoPath
            ELSE Append(destinationPath, keepBothFileName(name, CHOOSE i \in free : \A j \in free : i <= j))
        ELSE fullDestination

\* the 'skip' case moving every file to fullDestination
skipTargetAlwaysDestination(f, name, destPath, skipped) == Append(destPath, name)

\* the path the 'skip' case moves the file to (NoPath / name is a TypeError)
skipTarget(f, name, destPath, skipped) ==
    LET fullDestination == Append(destPath, name)
    IN  IF ~Exists(f, fullDestination) THEN fullDestination
        ELSE IF skipped = NoPath THEN NoPath
        ELSE Append(skipped, name)

----------------------------------------------------------------------------
(* Configuration and the initial filesystem *)

SRC == <<"s", "r", "c">>
DST == <<"d", "s", "t">>
ETC == <<"e", "t", "c">>
DOCS == <<"d", "o", "c", "s">>
PICS == <<"p", "i", "c", "s">>
GONE == <<"g", "o", "n", "e">>
SUB == <<"s", "u", "b">>
REPORT == <<"r", "e", "p", "o", "r", "t", ".", "p", "d", "f">>
NOTES == <<"n", "o", "t", "e", "s", ".", "t", "x", "t">>
PHOTO == <<"p", "h", "o", "t", "o", ".", "j", "p", "g">>
DSSTORE == <<".", "D", "S", "_", "S", "t", "o", "r", "e">>

filesToIgnore == {DSSTORE}

SKIP == "skip"
KEEP_BOTH == "keep_both"
OtherAction == "overwrite"

BackupFolder(source, destination, fileExistsAction) ==
    [source |-> source, destination |-> destination, fileExistsAction |-> fileExistsAction]

JobPool ==
    { BackupFolder(<<DOCS>>, <<DOCS>>, SKIP),
      BackupFolder(<<DotDot, SRC, DOCS>>, <<DotDot, DST, DOCS>>, KEEP_BOTH),
      BackupFolder(<<DOCS>>, <<DOCS>>, OtherAction),
      BackupFolder(<<PICS>>, <<>>, SKIP),
      BackupFolder(<<DotDot>>, <<DOCS>>, SKIP),
      BackupFolder(<<DOCS>>, <<DotDot, ETC>>, KEEP_BOTH),
      BackupFolder(<<GONE>>, <<DOCS>>, SKIP) }

\* the folders configured after the first one
LaterPool ==
    { BackupFolder(<<PICS>>, <<>>, SKIP),
      BackupFolder(<<DotDot, SRC, DOCS>>, <<DotDot, DST, DOCS>>, KEEP_BOTH),
      BackupFolder(<<DOCS>>, <<DotDot, ETC>>, KEEP_BOTH) }

JobLists ==
    UNION {{<<first>> \o rest : first \in JobPool, rest \in [1..(n - 1) -> LaterPool]} : n \in 1..MaxJobs}

Full == KeepBothStop - 1

\* a: which of report.pdf (1), "report 2.pdf" (2), ... are in /dst/docs
\* b: which of notes.txt (1), "notes 2.txt" (2), ... are in /dst/docs/sub
\* s: which /src/docs.skippedN exist;  clash: /dst/docs/sub is a regular file
\* hollow: /src/docs/sub holds nothing but its .DS_Store
Variant(a, b, s, clash) == [a |-> a, b |-> b, s |-> s, clash |-> clash, hollow |-> FALSE]

Hollow(v) == [v EXCEPT !.hollow = TRUE]

Variants ==
    {Variant(a, {}, {}, FALSE) : a \in SUBSET (1..MaxCollide)}
    \cup {Variant(a, {1}, s, FALSE) : a \in {{}, {1}}, s \in SUBSET (1..MaxSkipped)}
    \cup {Variant(1..Full, {}, {}, FALSE), Variant({1}, 1..Full, {}, FALSE),
          Variant({1}, {1}, SkippedFirst..(SkippedStop - 1), FALSE),
          Variant({}, {}, {}, TRUE), Variant({1}, {}, {1}, TRUE),
          Hollow(Variant({}, {}, {}, TRUE)), Hollow(Variant({1}, {}, {}, FALSE))}

KeepName(name, i) == IF i = 1 THEN name ELSE keepBothFileName(name, i)

PreFiles(dir, name, present, base) ==
    [p \in {Append(dir, KeepName(name, i)) : i \in present} |->
        base + (CHOOSE i \in present : Append(dir, KeepName(name, i)) = p)]

SourceFiles ==
    (<<SRC, DOCS, REPORT>> :> 1) @@ (<<SRC, DOCS, DSSTORE>> :> 2)
    @@ (<<SRC, DOCS, SUB, NOTES>> :> 3) @@ (<<SRC, DOCS, SUB, DSSTORE>> :> 4)
    @@ (<<SRC, PICS, PHOTO>> :> 5) @@ (<<SRC, PICS, DSSTORE, DSSTORE>> :> 6)

InitFiles(v) ==
    [p \in DOMAIN SourceFiles \ (IF v.hollow THEN {<<SRC, DOCS, SUB, NOTES>>} ELSE {}) |-> SourceFiles[p]]
    @@ PreFiles(<<DST, DOCS>>, REPORT, v.a, 100)
    @@ PreFiles(<<DST, DOCS, SUB>>, NOTES, v.b, 300)
    @@ (IF v.clash THEN (<<DST, DOCS, SUB>> :> 500) ELSE <<>>)
    @@ (IF 1 \in v.a THEN (<<DST, PHOTO>> :> 600) ELSE <<>>)

InitDirs(v) ==
    {<<>>, <<SRC>>, <<DST>>, <<ETC>>}
    \cup {SkippedCandidate(<<SRC, DOCS>>, i) : i \in v.s}
    \cup UNION {Ancestors(p) : p \in DOMAIN InitFiles(v)}

InitFS(v) ==
    LET files == InitFiles(v)
        dirs == InitDirs(v)
    IN  [p \in dirs \cup DOMAIN files |-> IF p \in dirs THEN Dir ELSE files[p]]

Step(op, name, tgt, err) == [op |-> op, name |-> name, tgt |-> tgt, err |-> err]

\* source root and destination root are the same directory, and the folder to
\* back up holds a subfolder named like the folder's own first ".skippedN" path
OverlapName == BaseName(SkippedCandidate(<<SRC, DOCS>>, SkippedFirst))

OverlapFS ==
    LET files == (<<SRC, DOCS, REPORT>> :> 1) @@ (<<SRC, DOCS, OverlapName, REPORT>> :> 7)
                 @@ (<<SRC, REPORT>> :> 9)
        dirs == UNION {Ancestors(p) : p \in DOMAIN files}
    IN  [p \in dirs \cup DOMAIN files |-> IF p \in dirs THEN Dir ELSE files[p]]

OverlapJobs == {<<BackupFolder(<<DOCS>>, <<>>, action)>> : action \in {SKIP, KEEP_BOTH}}

SeparateRoots ==
    /\ sourceRootPath = <<SRC>>
    /\ destinationRootPath = <<DST>>
    /\ \E v \in Variants : fs = InitFS(v)
    /\ jobs \in JobLists

SharedRoot ==
    /\ sourceRootPath = <<SRC>>
    /\ destinationRootPath = <<SRC>>
    /\ fs = OverlapFS
    /\ jobs \in OverlapJobs

\* the folder to back up is the source root itself
RootFolderFS ==
    LET files == (<<SRC, REPORT>> :> 1) @@ (<<SRC, DSSTORE>> :> 2) @@ (<<DST, REPORT>> :> 9)
        dirs == UNION {Ancestors(p) : p \in DOMAIN files}
    IN  [p \in dirs \cup DOMAIN files |-> IF p \in dirs THEN Dir ELSE files[p]]

RootFolderJobs == {<<BackupFolder(<<>>, <<>>, action)>> : action \in {SKIP, KEEP_BOTH}}

RootFolder ==
    /\ sourceRootPath = <<SRC>>
    /\ destinationRootPath = <<DST>>
    /\ fs = RootFolderFS
    /\ jobs \in RootFolderJobs

BeforeRun ==
    /\ k = 1
    /\ stack = <<>>
    /\ status = "running"
    /\ errors = {}
    /\ quar = <<>>
    /\ atStart = <<>>
    /\ last = Step("init", <<>>, <<>>, "")

Init == (SeparateRoots \/ RootFolder \/ SharedRoot) /\ BeforeRun

InitSeparate == (SeparateRoots \/ RootFolder) /\ BeforeRun

----------------------------------------------------------------------------
(* startBackup *)

folderToBackup(j) == sourceRootPath \o jobs[j].source

destPathOf(j) == destinationRootPath \o jobs[j].destination

\* the test of line 102 with "or" in place of "&"
jobAcceptedEither(j) ==
    isSubFolder(sourceRootPath, folderToBackup(j)) \/ isSubFolder(destinationRootPath, destPathOf(j))

jobAccepted(j) ==
    isSubFolder(sourceRootPath, folderToBackup(j)) /\ isSubFolder(destinationRootPath, destPathOf(j))

\* the existence test of line 103 left out
sourceExistsAlways(f, j) == TRUE

sourceExists(f, j) == Exists(f, folderToBackup(j))

Frame(src, dst, skp, todo) == [src |-> src, dst |-> dst, skp |-> skp, todo |-> todo, cur |-> NoName]

\* the head of backupFiles: create destPath when missing, then scandir(sourcePath)
Enter(f, src, dst) ==
    LET mk == IF Exists(f, dst) THEN [err |-> "", fs |-> f] ELSE Mkdir(f, dst, FALSE)
    IN  IF mk.err # "" THEN [err |-> mk.err, fs |-> mk.fs, todo |-> {}]
        ELSE IF ~Exists(mk.fs, src) THEN [err |-> "FileNotFoundError", fs |-> mk.fs, todo |-> {}]
        ELSE IF ~IsDirAt(mk.fs, src) THEN [err |-> "NotADirectoryError", fs |-> mk.fs, todo |-> {}]
        ELSE [err |-> "", fs |-> mk.fs, todo |-> Children(mk.fs, Canon(src))]

NextJob ==
    /\ k' = k + 1
    /\ status' = IF k + 1 > Len(jobs) THEN "done" ELSE "running"

Running == status = "running" /\ k <= Len(jobs)

JobInvalid ==
    /\ Running /\ stack = <<>>
    /\ ~jobAccepted(k)
    /\ errors' = errors \cup {k}
    /\ NextJob
    /\ last' = Step("invalid", folderToBackup(k), destPathOf(k), "")
    /\ UNCHANGED <<fs, config, stack, quar, atStart>>

JobMissing ==
    /\ Running /\ stack = <<>>
    /\ jobAccepted(k)
    /\ ~sourceExists(fs, k)
    /\ NextJob
    /\ last' = Step("missing", folderToBackup(k), destPathOf(k), "")
    /\ UNCHANGED <<fs, config, stack, errors, quar, atStart>>

JobStart ==
    /\ Running /\ stack = <<>>
    /\ jobAccepted(k)
    /\ sourceExists(fs, k)
    /\ LET skippedFolder == skippedFolderPath(fs, folderToBackup(k))
           e == Enter(fs, folderToBackup(k), destPathOf(k))
       IN  /\ quar' = quar @@ (k :> skippedFolder)
           /\ atStart' = atStart @@ (k :> fs)
           /\ fs' = e.fs
           /\ last' = Step("start", folderToBackup(k), skippedFolder, e.err)
           /\ IF e.err # ""
              THEN status' = "raised" /\ UNCHANGED stack
              ELSE /\ stack' = <<Frame(folderToBackup(k), destPathOf(k), skippedFolder, e.todo)>>
                   /\ UNCHANGED status
    /\ UNCHANGED <<config, k, errors>>

----------------------------------------------------------------------------
(* backupFiles: one step per directory entry *)

Top == stack[Len(stack)]

SetTop(fr) == [stack EXCEPT ![Len(stack)] = fr]

Taken(name) == [Top EXCEPT !.todo = @ \ {name}]

\* the ignore test left out
ignoredNever(name) == FALSE

ignored(name) == name \in filesToIgnore

InLoop == status = "running" /\ stack # <<>>

Ignore(name) ==
    /\ InLoop /\ name \in Top.todo
    /\ ignored(name)
    /\ stack' = SetTop(Taken(name))
    /\ last' = Step("ignore", Append(Top.src, name), NoPath, "")
    /\ UNCHANGED <<fs, config, k, status, errors, quar, atStart>>

\* the recursive call handed the caller's own skipped folder
skippedSubPathSame(skp, name) == skp

\* skippedFolderPath / sourceFile.name
skippedSubPath(skp, name) == Append(skp, name)

Descend(name) ==
    /\ InLoop /\ name \in Top.todo
    /\ ~ignored(name)
    /\ IsDirAt(fs, Append(Top.src, name))
    /\ LET sub == Append(Top.src, name)
           dst == Append(Top.dst, name)
           mk == Mkdir(fs, dst, FALSE)
           f1 == mk.fs
           e == Enter(f1, sub, dst)
           err == IF mk.err = "NotADirectoryError" THEN mk.err
                  ELSE IF Top.skp = NoPath THEN "TypeError"
                  ELSE e.err
       IN  /\ fs' = IF err = e.err THEN e.fs ELSE f1
           /\ last' = Step("descend", sub, dst, err)
           /\ IF err # ""
              THEN status' = "raised" /\ UNCHANGED stack
              ELSE /\ stack' = Append(SetTop([Taken(name) EXCEPT !.cur = name]),
                                      Frame(sub, dst, skippedSubPath(Top.skp, name), e.todo))
                   /\ UNCHANGED status
    /\ UNCHANGED <<config, k, errors, quar, atStart>>

\* a regular file whose move target was computed: NoPath is the None / name TypeError
MoveTo(op, name, tgt) ==
    LET source == Append(Top.src, name)
        m == IF tgt = NoPath THEN [err |-> "TypeError", fs |-> fs] ELSE moveFile(fs, source, tgt)
    IN  /\ fs' = m.fs
        /\ last' = Step(op, source, tgt, m.err)
        /\ IF m.err # ""
           THEN status' = "raised" /\ UNCHANGED stack
           ELSE stack' = SetTop(Taken(name)) /\ UNCHANGED status

IsFileEntry(name) ==
    /\ InLoop /\ name \in Top.todo
    /\ ~ignored(name)
    /\ ~IsDirAt(fs, Append(Top.src, name))

FileSkip(name) ==
    /\ IsFileEntry(name)
    /\ jobs[k].fileExistsAction = SKIP
    /\ LET tgt == skipTarget(fs, name, Top.dst, Top.skp)
       IN  MoveTo(IF tgt = Append(Top.dst, name) THEN "move" ELSE "skipped", name, tgt)
    /\ UNCHANGED <<config, k, errors, quar, atStart>>

FileKeepBoth(name) ==
    /\ IsFileEntry(name)
    /\ jobs[k].fileExistsAction = KEEP_BOTH
    /\ LET tgt == keepBothTarget(fs, name, Top.dst)
       IN  IF tgt = NoPath
           THEN /\ stack' = SetTop(Taken(name))
                /\ last' = Step("keep", Append(Top.src, name), NoPath, "")
                /\ UNCHANGED <<fs, status>>
           ELSE MoveTo("keep", name, tgt)
    /\ UNCHANGED <<config, k, errors, quar, atStart>>

FileNoMatch(name) ==
    /\ IsFileEntry(name)
    /\ jobs[k].fileExistsAction \notin {SKIP, KEEP_BOTH}
    /\ stack' = SetTop(Taken(name))
    /\ last' = Step("nomatch", Append(Top.src, name), NoPath, "")
    /\ UNCHANGED <<fs, config, k, status, errors, quar, atStart>>

\* the recursive call returns: the caller deletes the subfolder it was in
Return ==
    /\ InLoop /\ Top.todo = {}
    /\ Len(stack) > 1
    /\ LET caller == stack[Len(stack) - 1]
           sourceFile == Append(caller.src, caller.cur)
       IN  /\ fs' = RmTree(fs, sourceFile)
           /\ stack' = [SubSeq(stack, 1, Len(stack) - 1) EXCEPT ![Len(stack) - 1].cur = NoName]
           /\ last' = Step("rmtree", sourceFile, NoPath, "")
    /\ UNCHANGED <<config, k, status, errors, quar, atStart>>

\* the outermost call returns to startBackup
JobFinish ==
    /\ InLoop /\ Top.todo = {}
    /\ Len(stack) = 1
    /\ stack' = <<>>
    /\ NextJob
    /\ last' = Step("finish", Top.src, Top.dst, "")
    /\ UNCHANGED <<fs, config, errors, quar, atStart>>

EntryNames == IF stack = <<>> THEN {} ELSE Top.todo

Next ==
    \/ JobInvalid
    \/ JobMissing
    \/ JobStart
    \/ \E name \in EntryNames : Ignore(name)
    \/ \E name \in EntryNames : Descend(name)
    \/ \E name \in EntryNames : FileSkip(name)
    \/ \E name \in EntryNames : FileKeepBoth(name)
    \/ \E name \in EntryNames : FileNoMatch(name)
    \/ Return
    \/ JobFinish

Spec == Init /\ [][Next]_vars

\* the runs whose source root and destination root are different directories
SpecSeparate == InitSeparate /\ [][Next]_vars

----------------------------------------------------------------------------
(* Vocabulary of the properties *)

\* the regular files of folder j's source tree when its backup began, leaving out
\* those ignored by name and those below an ignored directory
SourceFilesOf(j) ==
    LET root == Canon(folderToBackup(j))
    IN  {p \in DOMAIN atStart[j] :
            /\ atStart[j][p] # Dir
            /\ Below(root, p)
            /\ \A i \in (Len(root) + 1)..Len(p) : p[i] \notin filesToIgnore}

\* the files of folder j's source tree with an ignored name
IgnoredFilesOf(j) ==
    LET root == Canon(folderToBackup(j))
    IN  {p \in DOMAIN atStart[j] :
            atStart[j][p] # Dir /\ Below(root, p) /\ BaseName(p) \in filesToIgnore}

RelativeTo(root, p) == SubSeq(p, Len(root) + 1, Len(p))

HoldsAt(f, p, content) == p \in DOMAIN f /\ f[p] = content

\* the places the specification allows file p of folder j to end up at
AllowedPlaces(j, p) ==
    LET rel == RelativeTo(Canon(folderToBackup(j)), p)
        mirrored == Canon(destPathOf(j)) \o rel
    IN  {mirrored}
        \cup {Append(Parent(mirrored), keepBothFileName(BaseName(p), i)) :
                i \in KeepBothFirst..(KeepBothStop - 1)}
        \cup (IF quar[j] = NoPath THEN {} ELSE {Canon(quar[j]) \o rel})

----------------------------------------------------------------------------
(* C1: after a run that completes without raising, every non-ignored      *)
(* regular file that was in an accepted folder's source tree when its     *)
(* backup began is gone from its source path and its content is at its    *)
(* mirrored path, at a keep-both-renamed path or at its quarantine path.  *)

C1_AllFilesRelocated ==
    status = "done" =>
        \A j \in DOMAIN atStart : \A p \in SourceFilesOf(j) :
            /\ p \notin DOMAIN fs
            /\ \E q \in AllowedPlaces(j, p) : HoldsAt(fs, q, atStart[j][p])

(* C2: the forced delete never destroys a non-ignored file that was not   *)
(* moved: whenever a step deletes a source subfolder, no regular file     *)
(* with a non-ignored name (and not below an ignored directory of that    *)
(* subfolder) is still inside it.                                         *)

UnmovedIn(f, dir) ==
    {p \in DOMAIN f :
        /\ f[p] # Dir
        /\ Below(dir, p)
        /\ \A i \in (Len(dir) + 1)..Len(p) : p[i] \notin filesToIgnore}

C2_StepDeletesOnlyEmptied ==
    last'.op = "rmtree" => UnmovedIn(fs, Canon(last'.name)) = {}

C2_NoUnmovedFileDestroyed == [][C2_StepDeletesOnlyEmptied]_vars

(* C3: no move targets a path that exists at the moment of the move:      *)
(* every step leaves each entry under the destination root at its path    *)
(* with its content, and a path that receives a file did not exist before *)
(* the step (so no two files end up at the same path).                    *)

C3_StepKeepsEntries ==
    /\ \A p \in DOMAIN fs :
          IsPrefix(destinationRootPath, p) /\ ~IsPrefix(sourceRootPath, p)
              => HoldsAt(fs', p, fs[p])
    /\ \A q \in DOMAIN fs' :
          fs'[q] # Dir /\ ~HoldsAt(fs, q, fs'[q]) => q \notin DOMAIN fs

C3_NoMoveOntoExisting == [][C3_StepKeepsEntries]_vars

(* C4: an ignored file is never moved and never deleted: every file with  *)
(* an ignored name that was in a folder's source tree when its backup     *)
(* began is still at its path with its content.                           *)

C4_IgnoredAlwaysKept ==
    \A j \in DOMAIN atStart : \A p \in IgnoredFilesOf(j) : HoldsAt(fs, p, atStart[j][p])

(* C4 as amended: an ignored file is never moved, and it is removed only  *)
(* by the forced delete of a non-ignored subfolder that contains it; in   *)
(* every other step it stays at its path with its content.                *)

C4_StepKeepsIgnored ==
    \A p \in DOMAIN fs :
        fs[p] # Dir /\ BaseName(p) \in filesToIgnore =>
            /\ \A q \in DOMAIN fs' : fs'[q] = fs[p] => q = p
            /\ \/ HoldsAt(fs', p, fs[p])
               \/ last'.op = "rmtree" /\ Below(Canon(last'.name), p)

C4_IgnoredOnlyLostWithSubfolder == [][C4_StepKeepsIgnored]_vars

\* a subfolder was deleted together with an ignored file, and an ignored file
\* directly in the folder's source directory is still there
C4_Witness ==
    /\ last.op = "rmtree"
    /\ \E j \in DOMAIN atStart :
          /\ \E p \in IgnoredFilesOf(j) : Below(Canon(last.name), p) /\ p \notin DOMAIN fs
          /\ \E p \in IgnoredFilesOf(j) : HoldsAt(fs, p, atStart[j][p])

(* C5: keep-both allocation moves the file to D/name when that path does  *)
(* not exist, and otherwise to D/"S i E" for the smallest i in [2,99]     *)
(* whose path does not exist; the target never exists at call time, and   *)
(* with exactly name, "S 2E", ..., "S NE" present the file goes to        *)
(* "S (N+1)E" (report.pdf present alone gives "report 2.pdf").            *)

Report2 == <<"r", "e", "p", "o", "r", "t", " ", "2", ".", "p", "d", "f">>

Renamed(name, i) == Stem(name) \o <<" ">> \o FormatN(i) \o Suffix(name)

\* the step moved the file from source to target, which did not exist before it
MovedTo(source, target) ==
    LET from == Canon(source)
        to == Canon(target)
    IN  /\ to \notin DOMAIN fs
        /\ HoldsAt(fs', to, fs[from])
        /\ from \notin DOMAIN fs'
        /\ \A q \in DOMAIN fs \ {from} : HoldsAt(fs', q, fs[q])

Least(S) == CHOOSE i \in S : \A j \in S : i <= j

C5_StepKeepBoth ==
    last'.op = "keep" /\ last'.err = "" =>
        LET source == last'.name
            name == BaseName(source)
            D == Top.dst
            range == KeepBothFirst..(KeepBothStop - 1)
        IN  IF ~Exists(fs, Append(D, name))
            THEN last'.tgt = Append(D, name) /\ MovedTo(source, last'.tgt)
            ELSE \A there \in {Children(fs, Canon(D))} :
                 \A stem \in {Stem(name)} : \A suffix \in {Suffix(name)} :
                 \A taken \in {{i \in range : (stem \o <<" ">> \o FormatN(i) \o suffix) \in there}} :
                 \A N \in {Cardinality(taken) + 1} :
                    taken # range =>
                        /\ last'.tgt = Append(D, Renamed(name, Least(range \ taken)))
                        /\ MovedTo(source, last'.tgt)
                        /\ (taken = 2..N => last'.tgt = Append(D, Renamed(name, N + 1)))
                        /\ (name = REPORT /\ N = 1 => BaseName(last'.tgt) = Report2)

C5_KeepBothAllocation == [][C5_StepKeepBoth]_vars

\* the file was renamed when the plain name and at least one numbered name existed
C5_Witness ==
    /\ last.op = "keep" /\ last.err = ""
    /\ last.tgt # NoPath
    /\ \E i \in (KeepBothFirst + 1)..(KeepBothStop - 1) :
          BaseName(last.tgt) = Renamed(BaseName(last.name), i)
    /\ Exists(fs, last.tgt) /\ ~Exists(fs, last.name)

(* C6: quarantine-path allocation for a directory path P returns          *)
(* P.skipped{i} for the smallest i in [1,99] such that P.skipped{i} does  *)
(* not exist; with docs and docs.skipped1 existing it returns             *)
(* docs.skipped2, and the returned path never exists at call time.        *)

DocsSkipped1 == <<"d", "o", "c", "s", ".", "s", "k", "i", "p", "p", "e", "d", "1">>
DocsSkipped2 == <<"d", "o", "c", "s", ".", "s", "k", "i", "p", "p", "e", "d", "2">>

SkippedName(P, i) == BaseName(P) \o SkippedText \o FormatN(i)

C6_StepAllocates ==
    last'.op = "start" =>
        LET P == last'.name
            dir == Parent(Canon(P))
        IN  \A taken \in {{i \in SkippedFirst..(SkippedStop - 1) : Append(dir, SkippedName(P, i)) \in DOMAIN fs}} :
            \A free \in {(SkippedFirst..(SkippedStop - 1)) \ taken} :
            /\ free # {} =>
                  /\ Canon(last'.tgt) = Append(dir, SkippedName(P, Least(free)))
                  /\ Canon(last'.tgt) \notin DOMAIN fs
            /\ (BaseName(P) = DOCS /\ taken = {1} => BaseName(last'.tgt) = DocsSkipped2)
            /\ quar'[k] = last'.tgt

C6_SkippedAllocation == [][C6_StepAllocates]_vars

\* docs.skipped1 existed and the folder was given docs.skipped2
C6_Witness ==
    /\ last.op = "start"
    /\ BaseName(last.tgt) = DocsSkipped2
    /\ Exists(atStart[k], Append(Parent(last.name), DocsSkipped1))
    /\ ~Exists(atStart[k], last.tgt)

(* C7: allocation exhaustion is an explicit failure: when every candidate *)
(* exists the allocator signals an error; it never returns silently       *)
(* without a target and never leaves the file unprocessed unreported.     *)

C7_ExhaustionIsSignalled ==
    last.op \in {"start", "keep"} /\ last.tgt = NoPath => status = "raised"

(* C8: folders are independent: whatever happened in an earlier folder,   *)
(* startBackup attempts every configured folder, so a run that has ended  *)
(* has attempted all of them.                                             *)

Attempted(j) == j < k \/ j \in DOMAIN quar \/ j \in errors

C8_EveryJobAttempted ==
    status # "running" => \A j \in 1..Len(jobs) : Attempted(j)

(* C9: a folder whose source resolves outside the source root, or whose   *)
(* destination resolves outside the destination root, is skipped          *)
(* entirely: an error is logged, the filesystem is left as it is, no      *)
(* backup is started and the loop goes on to the next folder.             *)

Escapes(root, p) == ~IsPrefix(Canon(root), Canon(p))

C9_StepSkipsEscapingJob ==
    (Running /\ stack = <<>>
        /\ (Escapes(sourceRootPath, folderToBackup(k)) \/ Escapes(destinationRootPath, destPathOf(k))))
    => /\ fs' = fs
       /\ k \in errors'
       /\ k \notin DOMAIN quar'
       /\ stack' = <<>>
       /\ k' = k + 1
       /\ status' # "raised"

C9_EscapingJobSkipped == [][C9_StepSkipsEscapingJob]_vars

\* a folder was rejected and the next folder's backup has started
C9_Witness ==
    /\ last.op = "start"
    /\ k > 1 /\ (k - 1) \in errors
    /\ stack # <<>>

(* C10: isSubFolder(root, candidate) is true iff the candidate, after     *)
(* resolving its ".." segments, is the root or a descendant of it: true   *)
(* for the root itself, for a descendant and for a ".." path that comes   *)
(* back inside the root, false for the root's parent and for a ".." path  *)
(* that ends outside the root.                                            *)

\* what a path relative to the root resolves to, told by its shape
ResolvesInside(root, rel) ==
    IF \A i \in 1..Len(rel) : rel[i] # DotDot THEN TRUE
    ELSE IF rel = <<DotDot>> THEN FALSE
    ELSE rel[1] = DotDot /\ Len(rel) >= 2 /\ rel[2] = BaseName(root)
         /\ \A i \in 2..Len(rel) : rel[i] # DotDot

C10_PathGuard ==
    \A j \in 1..Len(jobs) :
        /\ isSubFolder(sourceRootPath, folderToBackup(j))
              = ResolvesInside(sourceRootPath, jobs[j].source)
        /\ isSubFolder(destinationRootPath, destPathOf(j))
              = ResolvesInside(destinationRootPath, jobs[j].destination)
        /\ (j \in errors =>
              ~(ResolvesInside(sourceRootPath, jobs[j].source)
                /\ ResolvesInside(destinationRootPath, jobs[j].destination)))
        /\ (j \in DOMAIN quar =>
              ResolvesInside(sourceRootPath, jobs[j].source)
              /\ ResolvesInside(destinationRootPath, jobs[j].destination))

\* a folder given through ".." was accepted after one naming the root's parent was rejected
C10_Witness ==
    /\ last.op = "start"
    /\ DotDot \in {jobs[k].source[i] : i \in 1..Len(jobs[k].source)}
    /\ \E j \in errors : jobs[j].source = <<DotDot>>

----------------------------------------------------------------------------
(* C11: the Skip run end to end.  Roots /src and /dst, the one folder     *)
(* docs -> docs with policy Skip, '.DS_Store' ignored, report.pdf and     *)
(* .DS_Store in /src/docs, a report.pdf already in /dst/docs and no       *)
(* docs.skipped1 anywhere.  After the run /dst/docs/report.pdf still has  *)
(* its original content, /src/docs/report.pdf is gone, /src/docs and its  *)
(* .DS_Store are still there, and the moved file is in the skipped        *)
(* folder docs.skipped1.                                                  *)

\* the run of the scenario is over
SkipRunOver ==
    /\ sourceRootPath = <<SRC>> /\ destinationRootPath = <<DST>>
    /\ jobs = <<BackupFolder(<<DOCS>>, <<DOCS>>, SKIP)>>
    /\ status = "done"
    /\ 1 \in DOMAIN atStart
    /\ HoldsAt(atStart[1], <<DST, DOCS, REPORT>>, 101)
    /\ HoldsAt(atStart[1], <<SRC, DOCS, REPORT>>, 1)
    /\ ~Exists(atStart[1], <<SRC, DocsSkipped1>>)
    /\ ~Exists(atStart[1], <<DST, DocsSkipped1>>)

SkipRunLeaves(skippedFolder) ==
    /\ HoldsAt(fs, <<DST, DOCS, REPORT>>, 101)
    /\ HoldsAt(fs, Append(skippedFolder, REPORT), 1)
    /\ ~Exists(fs, <<SRC, DOCS, REPORT>>)
    /\ HoldsAt(fs, <<SRC, DOCS, DSSTORE>>, 2)
    /\ IsDirAt(fs, <<SRC, DOCS>>)

\* C11 as written: the skipped folder is under the destination root
C11_SkippedUnderDestinationRoot == SkipRunOver => SkipRunLeaves(<<DST, DocsSkipped1>>)

\* C11 amended: the skipped folder is the sibling of the source folder, under the source root
C11_SkippedBesideSourceFolder == SkipRunOver => SkipRunLeaves(<<SRC, DocsSkipped1>>)

C11_Witness == SkipRunOver /\ HoldsAt(fs, <<SRC, DocsSkipped1, REPORT>>, 1)

----------------------------------------------------------------------------
(* C12: a folder that passes the path test but whose source path does not *)
(* exist is nothing to back up: the step taken for it logs no error,      *)
(* raises nothing, leaves the filesystem as it is (no destination folder, *)
(* no skipped folder, nothing moved or deleted) and goes on to the next   *)
(* folder.                                                                *)

C12_StepSkipsMissingSource ==
    (Running /\ stack = <<>>
        /\ ~Escapes(sourceRootPath, folderToBackup(k))
        /\ ~Escapes(destinationRootPath, destPathOf(k))
        /\ Canon(folderToBackup(k)) \notin DOMAIN fs)
    => /\ fs' = fs
       /\ errors' = errors
       /\ status' # "raised"
       /\ k \notin DOMAIN quar'
       /\ stack' = <<>>
       /\ k' = k + 1
       /\ (k < Len(jobs) => status' = "running")

C12_MissingSourceSkipped == [][C12_StepSkipsMissingSource]_vars

\* the folder after a missing one has been started, on an untouched filesystem
C12_Witness ==
    /\ Len(jobs) = 2
    /\ jobs[1].source = <<GONE>>
    /\ last.op = "start" /\ k = 2
    /\ errors = {}
    /\ atStart[2] \in {InitFS(v) : v \in Variants}

----------------------------------------------------------------------------
(* C13: the skipped folder allocated for a job comes into being lazily:   *)
(* when the job has finished, the directory skippedFolderPath chose       *)
(* exists exactly when at least one file of the job was moved into it;    *)
(* under KeepBoth, or under Skip without a collision, it does not exist.  *)

\* the job that has just finished
Finished == k - 1

\* the files of job j that now sit at their path under the job's skipped folder
SkippedFilesOf(j) ==
    {p \in SourceFilesOf(j) :
        HoldsAt(fs, Canon(quar[j]) \o RelativeTo(Canon(folderToBackup(j)), p), atStart[j][p])}

----------------------------------------------------------------------------
(* C14: under Skip, a non-ignored regular file at relative path r below   *)
(* the job's source folder, at any depth, is moved to <destination>/r     *)
(* when nothing exists there; otherwise it is moved to <skipped>/r, where *)
(* <skipped> is the one folder allocated for the job (the recursion       *)
(* extends it by each subfolder name), the missing ancestors of the       *)
(* target are created, and the entry at <destination>/r stays as it is.   *)

C14_StepSkip ==
    (last'.op \in {"move", "skipped"} /\ last'.err = "") =>
        LET source == Canon(last'.name)
            r == RelativeTo(Canon(folderToBackup(k)), source)
            mirrored == Canon(destPathOf(k)) \o r
            skipped == Canon(quar[k]) \o r
        IN  /\ jobs[k].fileExistsAction = SKIP
            /\ source \notin DOMAIN fs'
            /\ IF mirrored \notin DOMAIN fs
               THEN /\ HoldsAt(fs', mirrored, fs[source])
                    /\ \A q \in DOMAIN fs \ {source} : HoldsAt(fs', q, fs[q])
                    /\ DOMAIN fs' = (DOMAIN fs \ {source}) \cup {mirrored}
               ELSE /\ quar[k] # NoPath
                    /\ HoldsAt(fs', skipped, fs[source])
                    /\ \A a \in Ancestors(skipped) : IsDirAt(fs', a)
                    /\ HoldsAt(fs', mirrored, fs[mirrored])
                    /\ \A q \in DOMAIN fs \ {source, skipped} : HoldsAt(fs', q, fs[q])
                    /\ DOMAIN fs' = (DOMAIN fs \ {source}) \cup {skipped} \cup Ancestors(skipped)

C14_SkipDisposition == [][C14_StepSkip]_vars

\* a file two levels down has just been moved into the skipped folder
C14_Witness ==
    /\ last.op = "skipped" /\ last.err = ""
    /\ Len(stack) = 2
    /\ Len(RelativeTo(Canon(folderToBackup(k)), Canon(last.name))) = 2
    /\ last.name \notin DOMAIN fs

----------------------------------------------------------------------------
(* C15: when a run has completed, an ignored file of a folder that was    *)
(* backed up still exists, at its original path, exactly when it lies     *)
(* directly in that folder or below an ignored directory there; an        *)
(* ignored file inside a non-ignored subfolder went with the subfolder.   *)

\* p is directly in the folder root, or below an ignored entry of root
KeptPlace(root, p) == Parent(p) = root \/ p[Len(root) + 1] \in filesToIgnore

C15_IgnoredKeptIffNotInSubfolder ==
    status = "done" =>
        \A j \in DOMAIN atStart :
            \A p \in IgnoredFilesOf(j) :
                HoldsAt(fs, p, atStart[j][p]) <=> KeptPlace(Canon(folderToBackup(j)), p)

\* one ignored file kept in the folder, one kept below an ignored directory, one gone with its subfolder
C15_Witness ==
    /\ status = "done"
    /\ DOMAIN atStart = {1, 2}
    /\ jobs[1].source = <<DOCS>> /\ jobs[2].source = <<PICS>>
    /\ <<SRC, DOCS, SUB, DSSTORE>> \in IgnoredFilesOf(1)
    /\ <<SRC, DOCS, SUB, DSSTORE>> \notin DOMAIN fs
    /\ HoldsAt(fs, <<SRC, DOCS, DSSTORE>>, 2)
    /\ <<SRC, PICS, DSSTORE, DSSTORE>> \in IgnoredFilesOf(2)
    /\ HoldsAt(fs, <<SRC, PICS, DSSTORE, DSSTORE>>, 6)

----------------------------------------------------------------------------
(* C16: a configuration holding a folder whose fileExistsAction is        *)
(* neither 'skip' nor 'keep_both' is rejected when it is loaded: the run  *)
(* never takes a step for any folder of it.                               *)

Recognized(j) == jobs[j].fileExistsAction \in {SKIP, KEEP_BOTH}

C16_UnrecognizedPolicyRejected ==
    (\E j \in 1..Len(jobs) : ~Recognized(j)) => last.op = "init"

----------------------------------------------------------------------------
(* C17: when a job has completed without raising, for every non-ignored   *)
(* subfolder found below the job's source folder, empty ones included, a  *)
(* directory exists at the mirrored path under the job's destination and  *)
(* the source subfolder is gone; what a mirrored directory already held   *)
(* before the job is still there.                                         *)

\* the subfolders of folder j's source tree that are not ignored and not below an ignored one
SubfoldersOf(j) ==
    LET root == Canon(folderToBackup(j))
    IN  {p \in DOMAIN atStart[j] :
            /\ atStart[j][p] = Dir
            /\ Below(root, p)
            /\ \A i \in (Len(root) + 1)..Len(p) : p[i] \notin filesToIgnore}

Mirrored(j, p) == Canon(destPathOf(j)) \o RelativeTo(Canon(folderToBackup(j)), p)

C17_SubfoldersMirrored ==
    last.op = "finish" =>
        \A d \in SubfoldersOf(Finished) :
            /\ IsDirAt(fs, Mirrored(Finished, d))
            /\ d \notin DOMAIN fs
            /\ \A q \in DOMAIN atStart[Finished] :
                   (Below(Mirrored(Finished, d), q) /\ ~IsPrefix(Canon(folderToBackup(Finished)), q))
                       => HoldsAt(fs, q, atStart[Finished][q])

----------------------------------------------------------------------------
(* C18: the walk of a job's source tree ends, and when it has ended every *)
(* entry of the tree has been handled once and is in a terminal state:    *)
(* an ignored entry of the folder is still in place, a non-ignored file   *)
(* is gone from its source path and sits at its mirrored path, at a       *)
(* keep-both name beside it or under the job's skipped folder, and a      *)
(* non-ignored subfolder has been deleted.  (The formula states the       *)
(* terminal states at the end of the walk; each entry is taken from the   *)
(* listing once by construction of the frames.)                           *)

\* the entries directly in folder j's source folder that have an ignored name
IgnoredEntriesOf(j) ==
    {p \in DOMAIN atStart[j] :
        Parent(p) = Canon(folderToBackup(j)) /\ p # <<>> /\ BaseName(p) \in filesToIgnore}

C18_EveryEntryTerminal ==
    last.op = "finish" =>
        /\ \A p \in IgnoredEntriesOf(Finished) : HoldsAt(fs, p, atStart[Finished][p])
        /\ \A p \in SourceFilesOf(Finished) :
              /\ p \notin DOMAIN fs
              /\ \E q \in AllowedPlaces(Finished, p) : HoldsAt(fs, q, atStart[Finished][p])
        /\ \A d \in SubfoldersOf(Finished) : d \notin DOMAIN fs

----------------------------------------------------------------------------
(* C19: the run stays inside its two roots: every path a step creates,    *)
(* writes or moves a file to lies within the source root or within the    *)
(* destination root, also for a folder whose source is the source root    *)
(* itself.                                                                *)

WithinRoots(q) == IsPrefix(Canon(sourceRootPath), q) \/ IsPrefix(Canon(destinationRootPath), q)

\* the paths a step created or gave new content
Written(f, g) == {q \in DOMAIN g : q \notin DOMAIN f \/ f[q] # g[q]}

C19_StepStaysInRoots == \A q \in Written(fs, fs') : WithinRoots(q)

C19_Sandbox == [][C19_StepStaysInRoots]_vars

----------------------------------------------------------------------------
(* C20: the walk of a job never removes the job's own source folder: it   *)
(* is still a directory after every step of the job and when the job has  *)
(* finished, even with everything in it relocated; the only directories a *)
(* step deletes are subfolders below it, deleted by the rmtree that       *)
(* follows their walk.                                                    *)

C20_StepKeepsJobRoot ==
    /\ stack # <<>> => IsDirAt(fs', folderToBackup(k))
    /\ \A q \in DOMAIN fs \ DOMAIN fs' :
           fs[q] = Dir => (last'.op = "rmtree" /\ stack # <<>>
                           /\ Below(Canon(folderToBackup(k)), q))

C20_JobRootNeverRemoved == [][C20_StepKeepsJobRoot]_vars

\* a job has finished, its subfolder deleted and its source folder left empty, and the folder is still there
C20_Witness ==
    /\ last.op = "finish"
    /\ IsDirAt(fs, folderToBackup(Finished))
    /\ Children(fs, Canon(folderToBackup(Finished))) = {}
    /\ SubfoldersOf(Finished) # {}
    /\ \A d \in SubfoldersOf(Finished) : d \notin DOMAIN fs

============================================================================
